---------------------------- MODULE Spec2Model ----------------------------
(***************************************************************************)
(* The Monte Carlo business simulator of                                   *)
(* Model_3_Bussiness_Sustainability/simulation_backend.py:                 *)
(* generate_company_data and run_monte_carlo_simulation.                   *)
(*                                                                         *)
(* Number representation.  The source computes in floating point; the      *)
(* model computes in fixed point, rounding every product and quotient to   *)
(* the nearest unit (Scaled), as IEEE arithmetic rounds to the nearest     *)
(* representable value:                                                    *)
(*   money                     units of 1000 dollars                       *)
(*   percentages (a field p%)  p * 100  (so p/100, a fraction, is the same *)
(*                             integer read in units of 1/10000)           *)
(*   fractions, probabilities  x * 10000                                   *)
(*   funding_rounds            rounds * 10                                 *)
(*   customer_count            units of 10 customers                       *)
(* A Python dict is a function from its keys (strings) to integers; a      *)
(* missing key is a key outside its DOMAIN.  Python objects live in heap,  *)
(* a function from references to dicts, so that copying a dict and         *)
(* aliasing it are different things.                                       *)
(***************************************************************************)
EXTENDS Integers, Sequences, FiniteSets, TLC

(***************************************************************************)
(* Bounds of the model.                                                    *)
(***************************************************************************)
MaxPeriods == 3
MaxIterations == 2
\* Random draws that differ from the default outcome (a Bernoulli draw that
\* succeeds, a normal draw off its mean, ...), per call of the simulation.
MaxDraws == 1
\* The same bounds for the runs that follow the events of one parameter set
\* over a longer horizon (EventSpec).
EventPeriods == 6
EventDraws == 3

\* The fixed-point scale of fractions.
One == 100 * 100

(***************************************************************************)
(* Fixed-point helpers.                                                    *)
(***************************************************************************)
\* x * num / den, rounded to the nearest unit (den # 0).
\* With x = q * den + r it is q * num + r * num / den, which keeps the
\* intermediate products small.
ScaledPos(x, num, den) ==
    (x \div den) * num + (2 * (x % den) * num + den) \div (2 * den)
Scaled(x, num, den) == IF den > 0 THEN ScaledPos(x, num, den) ELSE ScaledPos(-x, num, -den)

Min(a, b) == IF a <= b THEN a ELSE b
Max(a, b) == IF a >= b THEN a ELSE b
Abs(a) == IF a < 0 THEN -a ELSE a

RECURSIVE SqrtSearch(_, _, _)
SqrtSearch(n, lo, hi) ==
    IF lo >= hi THEN lo
    ELSE LET mid == (lo + hi + 1) \div 2
         IN IF mid * mid <= n THEN SqrtSearch(n, mid, hi)
                              ELSE SqrtSearch(n, lo, mid - 1)
\* floor(sqrt(n)) for 0 <= n < 2^31
ISqrt(n) == SqrtSearch(n, 0, 46340)

\* sin(2*pi*k/16) * 10000, k in 0..15
Sin16 == <<0, 3827, 7071, 9239, 10000, 9239, 7071, 3827,
           0, -3827, -7071, -9239, -10000, -9239, -7071, -3827>>

\* np.sin(np.linspace(0, 2*pi*periods/4, periods))[t] * 10000
SinLinspace == <<
    <<0>>,
    <<0, 0>>,
    <<0, 7071, -10000>>,
    <<0, 8660, -8660, 0>>,
    <<0, 9239, -7071, -3827, 10000>>,
    <<0, 9511, -5878, -5878, 9511, 0>>,
    <<0, 9659, -5000, -7071, 8660, 2588, -10000>> >>

\* sin(num/den) * 10000 for 0 <= num/den < 1.5, by its Taylor series
SinSmall(num, den) ==
    LET x  == Scaled(One, num, den)
        x2 == Scaled(x, x, One)
        x3 == Scaled(x2, x, One)
        x5 == Scaled(x3, x2, One)
    IN x - Scaled(x3, 1, 6) + Scaled(x5, 1, 120)

(***************************************************************************)
(* Python dicts.                                                           *)
(***************************************************************************)
EmptyDict == [k \in {} |-> 0]
HasKey(d, k) == k \in DOMAIN d
SetItem(d, k, v) == [x \in DOMAIN d \cup {k} |-> IF x = k THEN v ELSE d[x]]
\* dict.get(k, default)
Get(d, k, default) == IF HasKey(d, k) THEN d[k] ELSE default

(***************************************************************************)
(* generate_company_data                                                   *)
(***************************************************************************)
\* Base parameters by industry (lines 28-79).
industry_params == [
    SaaS |-> [revenue_growth_rate_mean |-> 2500, revenue_growth_volatility |-> 1000,
              variable_costs_percentage |-> 3000, fixed_costs_base |-> 800,
              r_and_d_percentage |-> 1500, marketing_percentage |-> 1500,
              customer_retention_rate |-> 8500, market_growth_rate_mean |-> 2000,
              industry_cyclicality |-> 2, market_volatility |-> 800],
    Manufacturing |-> [revenue_growth_rate_mean |-> 800, revenue_growth_volatility |-> 500,
              variable_costs_percentage |-> 6000, fixed_costs_base |-> 2000,
              r_and_d_percentage |-> 500, marketing_percentage |-> 800,
              customer_retention_rate |-> 9000, market_growth_rate_mean |-> 600,
              industry_cyclicality |-> 4, market_volatility |-> 600],
    Retail |-> [revenue_growth_rate_mean |-> 1000, revenue_growth_volatility |-> 800,
              variable_costs_percentage |-> 7000, fixed_costs_base |-> 1500,
              r_and_d_percentage |-> 200, marketing_percentage |-> 1200,
              customer_retention_rate |-> 7000, market_growth_rate_mean |-> 500,
              industry_cyclicality |-> 5, market_volatility |-> 900,
              seasonality_factor |-> 2500],
    Biotech |-> [revenue_growth_rate_mean |-> 1500, revenue_growth_volatility |-> 2000,
              variable_costs_percentage |-> 4000, fixed_costs_base |-> 4000,
              r_and_d_percentage |-> 2500, marketing_percentage |-> 1000,
              customer_retention_rate |-> 9500, market_growth_rate_mean |-> 1200,
              industry_cyclicality |-> 1, market_volatility |-> 1500,
              seasonality_factor |-> 500] ]

\* The (min, max) entries of size_adjustments (lines 82-131).
size_ranges == [
    startup |-> [initial_investment |-> <<500, 3000>>, initial_revenue |-> <<100, 2000>>,
                 current_cash_reserves |-> <<200, 1000>>, debt_level |-> <<0, 500>>,
                 market_share |-> <<10, 200>>, employee_count |-> <<5, 50>>,
                 funding_rounds |-> <<10, 40>>, funding_probability |-> <<3000, 7000>>,
                 funding_amount_mean |-> <<500, 3000>>, credit_score |-> <<650, 750>>],
    growth |-> [initial_investment |-> <<2000, 10000>>, initial_revenue |-> <<1000, 10000>>,
                 current_cash_reserves |-> <<500, 3000>>, debt_level |-> <<500, 3000>>,
                 market_share |-> <<200, 800>>, employee_count |-> <<50, 200>>,
                 funding_rounds |-> <<0, 20>>, funding_probability |-> <<2000, 5000>>,
                 funding_amount_mean |-> <<2000, 10000>>, credit_score |-> <<680, 780>>],
    established |-> [initial_investment |-> <<5000, 50000>>, initial_revenue |-> <<10000, 100000>>,
                 current_cash_reserves |-> <<2000, 20000>>, debt_level |-> <<2000, 20000>>,
                 market_share |-> <<500, 2500>>, employee_count |-> <<200, 1000>>,
                 funding_rounds |-> <<0, 10>>, funding_probability |-> <<1000, 3000>>,
                 funding_amount_mean |-> <<5000, 30000>>, credit_score |-> <<700, 820>>] ]

\* The scalar entries of size_adjustments, in hundredths (lines 82-131).
size_multipliers == [
    startup |-> [revenue_growth_rate_mean |-> 150, revenue_growth_volatility |-> 130,
                 competitor_entry_probability |-> 130,
                 supply_chain_disruption_probability |-> 120],
    growth |-> [revenue_growth_rate_mean |-> 100, revenue_growth_volatility |-> 100,
                 competitor_entry_probability |-> 100,
                 supply_chain_disruption_probability |-> 100],
    established |-> [revenue_growth_rate_mean |-> 60, revenue_growth_volatility |-> 70,
                 competitor_entry_probability |-> 80,
                 supply_chain_disruption_probability |-> 90] ]

\* Market condition adjustments, in hundredths (lines 134-156).
market_adjustments == [
    boom |-> [revenue_growth_rate_mean |-> 130, market_growth_rate_mean |-> 140,
              funding_probability |-> 130, competitor_entry_probability |-> 120,
              cost_inflation_rate |-> 110],
    normal |-> [revenue_growth_rate_mean |-> 100, market_growth_rate_mean |-> 100,
              funding_probability |-> 100, competitor_entry_probability |-> 100,
              cost_inflation_rate |-> 100],
    recession |-> [revenue_growth_rate_mean |-> 60, market_growth_rate_mean |-> 40,
              funding_probability |-> 50, competitor_entry_probability |-> 70,
              cost_inflation_rate |-> 80] ]

\* np.random.uniform(lo, hi) for the draw f in [0, 1), f * 10000
Uniform(lo, hi, f) == lo + Scaled(hi - lo, f, One)

\* for a key with a (min, max) entry: company_data[key] = uniform(min, max)
ApplyRanges(d, ranges, f) ==
    [k \in DOMAIN d \cup DOMAIN ranges |->
        IF k \in DOMAIN ranges THEN Uniform(ranges[k][1], ranges[k][2], f) ELSE d[k]]

\* for a key with a scalar entry: if key in company_data, multiply it
ApplyMultipliers(d, mult) ==
    [k \in DOMAIN d |-> IF k \in DOMAIN mult THEN Scaled(d[k], mult[k], 100) ELSE d[k]]

\* the default never set
SetDefaultSkipped(d, k, v) == d
\* if key not in company_data: company_data[key] = v
SetDefault(d, k, v) == IF HasKey(d, k) THEN d ELSE SetItem(d, k, v)

\* ((1 + annual/100) ** 0.25 - 1) * 100
QuarterlyRate(annual) == ISqrt(ISqrt((One + annual) * One) * One) - One

ConvertToQuarterly(d) ==
    [k \in DOMAIN d |->
        IF k \in {"revenue_growth_rate_mean", "market_growth_rate_mean", "cost_inflation_rate"}
        THEN QuarterlyRate(d[k]) ELSE d[k]]

MarketShareGrowthDivisor(size) ==
    IF size = "startup" THEN 5 ELSE IF size = "growth" THEN 8 ELSE 15

\* The dict generate_company_data returns, or the exception it raises.
\* f is the value of every np.random.uniform draw of the call.
generate_company_data(industry_type, size, market_condition, f) ==
    LET industry == IF industry_type \notin DOMAIN industry_params
                    THEN "SaaS" ELSE industry_type
        d0 == industry_params[industry]
        d1 == ApplyMultipliers(ApplyRanges(d0, size_ranges[size], f), size_multipliers[size])
        d2 == ApplyMultipliers(d1, market_adjustments[market_condition])
        d3 == IF HasKey(d2, "employee_count") /\ HasKey(d2, "fixed_costs_base")
              THEN SetItem(d2, "fixed_costs",
                           Scaled(d2["fixed_costs_base"] + d2["employee_count"] * 100, 1, 4))
              ELSE d2
        d4 == SetDefault(SetDefault(d3, "competitor_entry_probability", 1500),
                         "competitor_impact", Uniform(500, 2000, f))
        d5 == SetDefault(SetDefault(d4, "regulatory_change_probability",
                                    IF industry = "Biotech" THEN 2500 ELSE 1000),
                         "regulatory_impact",
                         IF industry = "Biotech" THEN Uniform(1000, 3000, f)
                                                 ELSE Uniform(500, 1500, f))
        d6 == SetDefault(SetDefault(d5, "supply_chain_disruption_probability",
                                    IF industry \in {"Manufacturing", "Retail"}
                                    THEN 2000 ELSE 1000),
                         "supply_chain_impact", Uniform(1000, 2500, f))
        d7 == SetDefault(d6, "seasonality_factor", 1000)
        d8 == SetDefault(d7, "cost_inflation_rate", Uniform(150, 350, f))
        d9 == SetDefault(d8, "market_share_growth",
                         Scaled(d8["revenue_growth_rate_mean"], 1,
                                MarketShareGrowthDivisor(size)))
        d10 == SetDefault(d9, "employee_productivity", Uniform(8000, 12000, f))
    IN IF size \notin DOMAIN size_ranges THEN [err |-> "KeyError", value |-> EmptyDict]
       ELSE IF market_condition \notin DOMAIN market_adjustments
            THEN [err |-> "KeyError", value |-> EmptyDict]
       ELSE [err |-> "none", value |-> ConvertToQuarterly(d10)]

(***************************************************************************)
(* run_monte_carlo_simulation: the scenario adjustment                     *)
(***************************************************************************)
\* scenario_adjustments, in hundredths (lines 248-279).
scenario_adjustments == [
    optimistic |-> [revenue_growth_rate_mean |-> 130, market_growth_rate_mean |-> 120,
                    cost_inflation_rate |-> 80, competitor_entry_probability |-> 70,
                    regulatory_change_probability |-> 70,
                    supply_chain_disruption_probability |-> 70,
                    customer_retention_rate |-> 110, funding_probability |-> 130],
    neutral |-> [revenue_growth_rate_mean |-> 100, market_growth_rate_mean |-> 100,
                    cost_inflation_rate |-> 100, competitor_entry_probability |-> 100,
                    regulatory_change_probability |-> 100,
                    supply_chain_disruption_probability |-> 100,
                    customer_retention_rate |-> 100, funding_probability |-> 100],
    pessimistic |-> [revenue_growth_rate_mean |-> 70, market_growth_rate_mean |-> 70,
                    cost_inflation_rate |-> 120, competitor_entry_probability |-> 130,
                    regulatory_change_probability |-> 130,
                    supply_chain_disruption_probability |-> 130,
                    customer_retention_rate |-> 90, funding_probability |-> 60] ]

\* the optimistic multipliers whatever the scenario
ApplyScenarioOptimistic(d, scenario) == ApplyMultipliers(d, scenario_adjustments["optimistic"])
\* for key in adj: if key in adjusted_data: adjusted_data[key] *= adj[key]
ApplyScenario(d, scenario) == ApplyMultipliers(d, scenario_adjustments[scenario])

\* The keys run_monte_carlo_simulation reads with adjusted_data[key], by the
\* place of the first read: before the trials, at the start of a trial, in
\* every period.  (competitor_impact, regulatory_impact, supply_chain_impact
\* and funding_probability are read only when their event triggers.)
EventKeys == {"competitor_impact", "regulatory_impact", "supply_chain_impact",
              "funding_probability"}
SetupKeys == {"initial_revenue", "market_share"}
TrialKeys == {"current_cash_reserves", "debt_level", "seasonality_factor"}
PeriodKeys == {"industry_cyclicality", "market_growth_rate_mean", "market_volatility",
               "competitor_entry_probability", "regulatory_change_probability",
               "supply_chain_disruption_probability", "revenue_growth_rate_mean",
               "customer_retention_rate", "market_share_growth", "fixed_costs",
               "cost_inflation_rate", "variable_costs_percentage",
               "r_and_d_percentage", "marketing_percentage", "initial_investment"}

(***************************************************************************)
(* run_monte_carlo_simulation: one period of one trial (lines 339-527)     *)
(***************************************************************************)
\* The random draws of one period, in the order of the source.  A Bernoulli
\* draw is the value u of np.random.random() (u * 10000); z_market and
\* z_value are the deviates of the two normal draws in standard deviations;
\* funding_percent is np.random.uniform(0.1, 0.3) in hundredths.
UnitDraws == {0, 9999}
NormalDraws == {0}
FundingPercents == {20}
PeriodDraws == [u_competitor : UnitDraws, u_regulatory : UnitDraws, u_supply : UnitDraws,
                z_market : NormalDraws, z_value : NormalDraws,
                u_antitrust : UnitDraws, u_funding : UnitDraws,
                funding_percent : FundingPercents]
DefaultDraw == [u_competitor |-> 9999, u_regulatory |-> 9999, u_supply |-> 9999,
                z_market |-> 0, z_value |-> 0, u_antitrust |-> 9999,
                u_funding |-> 9999, funding_percent |-> 20]
\* np.random.uniform(0, econ_cycle_length)
EconStarts == {0, 4}

\* The local variables of a trial that live across its periods.
TrialVariables == {"revenue", "cash", "debt", "market_share", "market_size",
                   "max_market_share", "competitor_entered", "competitor_entry_periods",
                   "regulatory_change", "regulatory_change_periods",
                   "supply_chain_disruptions", "funding_rounds_remaining",
                   "last_funding_period", "econ_cycle_start", "customer_count"}

\* The frame of one pass through the body of "for t in range(periods)": the
\* dict adjusted_data (ad), the trial's variables (ts), t, periods, the
\* period's draws (d), and the locals the body assigns.  err is the
\* exception raised, if any ("NonFinite": a numpy division by zero, which
\* yields inf or nan and a warning instead of raising).
Frame(ad, ts, t, periods, d) ==
    ts @@ [ad |-> ad, t |-> t, periods |-> periods, d |-> d,
           err |-> IF PeriodKeys \subseteq DOMAIN ad THEN "none" ELSE "KeyError",
           econ_cycle_factor |-> 0, market_growth |-> 0,
           competitor_now |-> FALSE, regulatory_now |-> FALSE, supply_now |-> FALSE,
           recovered_share |-> 0,
           restored |-> 0, market_share_factor |-> 0, market_saturation_factor |-> 0,
           base_growth_rate |-> 0, growth_rate |-> 0,
           antitrust_drawn |-> FALSE, antitrust_now |-> FALSE,
           fixed_costs |-> 0, variable_costs |-> 0, r_and_d |-> 0, marketing |-> 0,
           profit |-> 0, funding_trigger |-> FALSE, funding_drawn |-> FALSE,
           funding_now |-> FALSE, funding |-> 0, debt_interest |-> 0, debt_payment |-> 0,
           cash_flow |-> 0, borrow_now |-> FALSE, cut_now |-> FALSE, new_debt |-> 0, roi |-> 0]

\* lines 341-352
EconomicCycle(s) ==
    IF s.err # "none" THEN s
    ELSE LET econ_cycle_phase == (s.t + s.econ_cycle_start) % 16
             econ_cycle_factor == One + Scaled(Sin16[econ_cycle_phase + 1], 2, 10)
             market_cycle_factor ==
                 One + Scaled(SinSmall(s.t, 6 + s.ad["industry_cyclicality"]), 2, 10)
             market_growth ==
                 Scaled(Scaled(s.ad["market_growth_rate_mean"], market_cycle_factor, One),
                        econ_cycle_factor, One) + s.d.z_market * s.ad["market_volatility"]
         IN [s EXCEPT !.econ_cycle_factor = econ_cycle_factor,
                      !.market_growth = market_growth,
                      !.market_size = Scaled(s.market_size, One + market_growth, One)]

\* random() < probability / periods, for the draw u
Bernoulli(u, probability, periods) == u * periods < probability

\* the guard left out: every successful draw applies the effect
FirstTimeAlways(happened) == TRUE

\* "and not competitor_entered" (line 357), "and not regulatory_change" (line 375)
FirstTime(happened) == ~happened

\* lines 357-363
CompetitorEntry(s) ==
    IF s.err # "none" THEN s
    ELSE IF ~(Bernoulli(s.d.u_competitor, s.ad["competitor_entry_probability"], s.periods)
              /\ FirstTime(s.competitor_entered)) THEN s
    ELSE IF ~HasKey(s.ad, "competitor_impact") THEN [s EXCEPT !.err = "KeyError"]
    ELSE [s EXCEPT !.competitor_now = TRUE,
                   !.competitor_entered = TRUE,
                   !.competitor_entry_periods = Append(@, s.t),
                   !.market_share = Scaled(@, One - s.ad["competitor_impact"], One),
                   !.ad["marketing_percentage"] = Scaled(@, 12, 10)]

\* line 369 with "periods_since_entry >= 0": the recovery starts in the period
\* of the entry
RECURSIVE CompetitorRecoveryFromEntry(_, _, _, _)
CompetitorRecoveryFromEntry(market_share, entry_periods, t, marketing_percentage) ==
    IF entry_periods = <<>> THEN market_share
    ELSE LET periods_since_entry == t - Head(entry_periods)
         IN CompetitorRecoveryFromEntry(
                IF periods_since_entry >= 0 /\ periods_since_entry <= 4
                THEN Scaled(market_share,
                            One + Scaled(marketing_percentage, periods_since_entry + 1, 40),
                            One)
                ELSE market_share,
                Tail(entry_periods), t, marketing_percentage)

\* lines 367-372
RECURSIVE CompetitorRecovery(_, _, _, _)
CompetitorRecovery(market_share, entry_periods, t, marketing_percentage) ==
    IF entry_periods = <<>> THEN market_share
    ELSE LET periods_since_entry == t - Head(entry_periods)
         IN CompetitorRecovery(
                IF periods_since_entry > 0 /\ periods_since_entry <= 4
                THEN Scaled(market_share,
                            One + Scaled(marketing_percentage, periods_since_entry, 40), One)
                ELSE market_share,
                Tail(entry_periods), t, marketing_percentage)

\* lines 366-372; recovered_share keeps the market share as the loop leaves it
CompetitorDecay(s) ==
    IF s.err # "none" THEN s
    ELSE IF s.competitor_entered /\ Len(s.competitor_entry_periods) > 0
    THEN [s EXCEPT !.market_share =
              CompetitorRecovery(@, s.competitor_entry_periods, s.t,
                                 s.ad["marketing_percentage"]),
                   !.recovered_share =
              CompetitorRecovery(s.market_share, s.competitor_entry_periods, s.t,
                                 s.ad["marketing_percentage"])]
    ELSE [s EXCEPT !.recovered_share = s.market_share]

\* lines 375-382
RegulatoryChange(s) ==
    IF s.err # "none" THEN s
    ELSE IF ~(Bernoulli(s.d.u_regulatory, s.ad["regulatory_change_probability"], s.periods)
              /\ FirstTime(s.regulatory_change)) THEN s
    ELSE IF ~HasKey(s.ad, "regulatory_impact") THEN [s EXCEPT !.err = "KeyError"]
    ELSE [s EXCEPT !.regulatory_now = TRUE,
                   !.regulatory_change = TRUE,
                   !.regulatory_change_periods = Append(@, s.t),
                   !.revenue = Scaled(@, One - s.ad["regulatory_impact"], One),
                   !.ad["fixed_costs"] =
                       Scaled(@, One + Scaled(s.ad["regulatory_impact"], 1, 2), One)]

\* lines 385-390
SupplyChainDisruption(s) ==
    IF s.err # "none" THEN s
    ELSE IF ~Bernoulli(s.d.u_supply, s.ad["supply_chain_disruption_probability"], s.periods)
    THEN s
    ELSE IF ~HasKey(s.ad, "supply_chain_impact") THEN [s EXCEPT !.err = "KeyError"]
    ELSE [s EXCEPT !.supply_now = TRUE,
                   !.supply_chain_disruptions = Append(@, s.t),
                   !.revenue = Scaled(@, One - s.ad["supply_chain_impact"], One),
                   !.ad["customer_retention_rate"] = Scaled(@, 95, 100)]

\* rate /= 0.95, n times
RECURSIVE Restore(_, _)
Restore(rate, n) == IF n = 0 THEN rate ELSE Restore(Scaled(rate, 100, 95), n - 1)

\* lines 393-397: the disruptions whose window is over are removed, and the
\* retention rate is divided by 0.95 once for each
SupplyChainRecovery(s) ==
    IF s.err # "none" THEN s
    ELSE LET expired == SelectSeq(s.supply_chain_disruptions, LAMBDA p : s.t - p >= 2)
         IN [s EXCEPT !.restored = Len(expired),
                      !.supply_chain_disruptions = SelectSeq(@, LAMBDA p : ~(s.t - p >= 2)),
                      !.ad["customer_retention_rate"] = Restore(@, Len(expired))]

\* lines 400-405
MarketSaturation(s) ==
    IF s.err # "none" THEN s
    ELSE IF s.max_market_share = 0 THEN [s EXCEPT !.err = "ZeroDivisionError"]
    ELSE [s EXCEPT !.market_share_factor = Scaled(s.market_share, One, s.max_market_share),
                   !.base_growth_rate = s.ad["revenue_growth_rate_mean"],
                   !.market_saturation_factor =
                       One - Scaled(s.market_share, One, s.max_market_share)]

\* lines 408-416
CustomerModel(s) ==
    IF s.err # "none" THEN s
    ELSE LET retention_rate == s.ad["customer_retention_rate"]
             existing_customers == Scaled(s.customer_count, retention_rate, One)
             acquisition_rate ==
                 Scaled(Scaled(1000, s.market_saturation_factor, One),
                        One + s.market_growth, One)
             new_customers == Scaled(s.customer_count, acquisition_rate, One)
         IN [s EXCEPT !.customer_count = existing_customers + new_customers]

\* lines 419-426.  revenue is a Python float in the first period and a numpy
\* float afterwards (line 437 multiplies it by a numpy value).
GrowthRate(s) ==
    IF s.err # "none" THEN s
    ELSE IF s.revenue = 0
    THEN [s EXCEPT !.err = IF s.t = 0 THEN "ZeroDivisionError" ELSE "NonFinite"]
    ELSE LET customer_value_growth == 50 + s.d.z_value * 20
             growth_from_customers == Scaled(s.customer_count, One, s.revenue) - One
             seasonality ==
                 Scaled(SinLinspace[s.periods][s.t + 1], s.ad["seasonality_factor"], One)
         IN [s EXCEPT !.growth_rate =
                 Scaled(growth_from_customers + customer_value_growth,
                        s.econ_cycle_factor, One) + seasonality]

\* line 430 without min(max_market_share, ...)
MarketShareGrowthUncapped(s) ==
    IF s.err # "none" THEN s
    ELSE LET market_share_growth ==
                 Scaled(s.ad["market_share_growth"], s.market_saturation_factor, One)
         IN [s EXCEPT !.market_share = Scaled(@, One + market_share_growth, One)]

\* lines 429-430
MarketShareGrowth(s) ==
    IF s.err # "none" THEN s
    ELSE LET market_share_growth ==
                 Scaled(s.ad["market_share_growth"], s.market_saturation_factor, One)
         IN [s EXCEPT !.market_share =
                 Min(s.max_market_share, Scaled(@, One + market_share_growth, One))]

\* lines 433-434
AntiTrust(s) ==
    IF s.err # "none" THEN s
    ELSE IF ~(s.market_share > 5000) THEN s
    ELSE IF s.d.u_antitrust < 2000
         THEN [s EXCEPT !.antitrust_drawn = TRUE, !.antitrust_now = TRUE,
                        !.market_share = Scaled(@, 9, 10)]
         ELSE [s EXCEPT !.antitrust_drawn = TRUE]

\* line 437
RevenueUpdate(s) ==
    IF s.err # "none" THEN s
    ELSE [s EXCEPT !.revenue = Scaled(@, One + s.growth_rate, One)]

\* (1 + rate) ** n
RECURSIVE Power(_, _)
Power(rate, n) == IF n = 0 THEN One ELSE Scaled(Power(rate, n - 1), One + rate, One)

\* lines 442-450
FixedCosts(s) ==
    IF s.err # "none" THEN s
    ELSE LET employee_growth == Max(0, Scaled(s.growth_rate, 7, 10))
             facility_expansion == s.revenue > 3000 /\ s.revenue > 3000 * (s.t + 1)
         IN [s EXCEPT !.fixed_costs =
                 IF facility_expansion
                 THEN Scaled(s.ad["fixed_costs"], 120 + s.t, 100)
                 ELSE Scaled(Scaled(s.ad["fixed_costs"],
                                    Power(s.ad["cost_inflation_rate"], s.t), One),
                             One + employee_growth, One)]

\* lines 453-459
OtherCosts(s) ==
    IF s.err # "none" THEN s
    ELSE IF s.ad["initial_revenue"] = 0 THEN [s EXCEPT !.err = "NonFinite"]
    ELSE LET base_variable_rate == s.ad["variable_costs_percentage"]
             scale_factor ==
                 Max(8000, One - Scaled(Scaled(s.revenue, One, s.ad["initial_revenue"]) - One,
                                        5, 100))
         IN [s EXCEPT !.variable_costs =
                          Scaled(Scaled(s.revenue, base_variable_rate, One), scale_factor, One),
                      !.r_and_d = Scaled(s.revenue, s.ad["r_and_d_percentage"], One),
                      !.marketing = Scaled(s.revenue, s.ad["marketing_percentage"], One)]

\* line 462
Profit(s) ==
    IF s.err # "none" THEN s
    ELSE [s EXCEPT !.profit = s.revenue - s.fixed_costs - s.variable_costs
                              - s.r_and_d - s.marketing]

\* lines 465-472 without "t - last_funding_period >= 4"
FundingCheckNoGap(s) ==
    IF s.err # "none" THEN s
    ELSE LET runway_short == s.profit < 0 /\ s.cash < 3 * (-s.profit)
             funding_trigger ==
                 runway_short \/ (s.growth_rate > 1000 /\ s.market_share_factor < 5000)
         IN [s EXCEPT !.funding_trigger = funding_trigger,
                      !.funding_drawn = s.funding_rounds_remaining > 0 /\ funding_trigger]

\* lines 465-472, up to the draw; cash_runway < 3 is cash / -profit < 3
FundingCheck(s) ==
    IF s.err # "none" THEN s
    ELSE LET runway_short == s.profit < 0 /\ s.cash < 3 * (-s.profit)
             funding_trigger ==
                 runway_short \/ (s.growth_rate > 1000 /\ s.market_share_factor < 5000)
         IN [s EXCEPT !.funding_trigger = funding_trigger,
                      !.funding_drawn = /\ s.funding_rounds_remaining > 0
                                        /\ s.t - s.last_funding_period >= 4
                                        /\ funding_trigger]

\* lines 472-483
FundingRound(s) ==
    IF s.err # "none" \/ ~s.funding_drawn THEN s
    ELSE IF ~HasKey(s.ad, "funding_probability") THEN [s EXCEPT !.err = "KeyError"]
    ELSE IF ~Bernoulli(s.d.u_funding, s.ad["funding_probability"], s.periods) THEN s
    ELSE LET valuation_multiple == 400 + s.growth_rate
             valuation == Scaled(s.revenue * 4, valuation_multiple, 100)
         IN [s EXCEPT !.funding_now = TRUE,
                      !.funding = Scaled(valuation, s.d.funding_percent, 100),
                      !.funding_rounds_remaining = @ - 10,
                      !.last_funding_period = s.t]

\* line 491 without min(debt, ...)
DebtPaymentUncapped(s) ==
    IF s.err # "none" THEN s
    ELSE [s EXCEPT !.debt_interest = Scaled(s.debt, 15, 1000),
                   !.debt_payment =
                       IF s.profit > 0
                       THEN Max(Scaled(s.debt, 5, 100), Scaled(s.profit, 2, 10))
                       ELSE Scaled(s.debt, 2, 100)]

\* lines 486-493
DebtPayment(s) ==
    IF s.err # "none" THEN s
    ELSE [s EXCEPT !.debt_interest = Scaled(s.debt, 15, 1000),
                   !.debt_payment =
                       IF s.profit > 0
                       THEN Min(s.debt, Max(Scaled(s.debt, 5, 100), Scaled(s.profit, 2, 10)))
                       ELSE Scaled(s.debt, 2, 100)]

\* lines 495-498
CashUpdate(s) ==
    IF s.err # "none" THEN s
    ELSE [s EXCEPT !.debt = Max(0, s.debt - s.debt_payment + s.debt_interest),
                   !.cash_flow = s.profit - s.debt_payment + s.funding,
                   !.cash = s.cash + s.profit - s.debt_payment + s.funding]

\* lines 507-510 with usable cash of 90% of the shortfall, not of the new debt
BorrowShortfall(s) ==
    LET credit_score == Get(s.ad, "credit_score", 700)
        credit_score_factor == Min(One, Scaled(credit_score, One, 750))
        interest_premium ==
            (11000 - credit_score_factor) + Scaled(Scaled(s.debt, One, s.revenue), 5, 10)
        new_debt == Scaled(Abs(s.cash), 11000 + interest_premium, One)
    IN [s EXCEPT !.borrow_now = TRUE,
                 !.new_debt = new_debt,
                 !.debt = @ + new_debt,
                 !.cash = @ + Scaled(Abs(s.cash), 9, 10)]

\* lines 507-510
Borrow(s) ==
    LET credit_score == Get(s.ad, "credit_score", 700)
        credit_score_factor == Min(One, Scaled(credit_score, One, 750))
        interest_premium ==
            (11000 - credit_score_factor) + Scaled(Scaled(s.debt, One, s.revenue), 5, 10)
        new_debt == Scaled(Abs(s.cash), 11000 + interest_premium, One)
    IN [s EXCEPT !.borrow_now = TRUE,
                 !.new_debt = new_debt,
                 !.debt = @ + new_debt,
                 !.cash = @ + Scaled(new_debt, 9, 10)]

\* lines 513-516
CutCosts(s) ==
    [s EXCEPT !.cut_now = TRUE,
              !.ad["marketing_percentage"] = Scaled(@, 8, 10),
              !.ad["r_and_d_percentage"] = Scaled(@, 7, 10),
              !.fixed_costs = Scaled(@, 9, 10),
              !.cash = 0]

\* line 505 with "credit_score >= 650"
EmergencyFinancingLenient(s) ==
    IF s.err # "none" \/ ~(s.cash < 0) THEN s
    ELSE IF s.debt < s.revenue * 2 /\ Get(s.ad, "credit_score", 700) >= 650
         THEN Borrow(s)
         ELSE CutCosts(s)

\* lines 501-516
EmergencyFinancing(s) ==
    IF s.err # "none" \/ ~(s.cash < 0) THEN s
    ELSE IF s.debt < s.revenue * 2 /\ Get(s.ad, "credit_score", 700) > 650
         THEN Borrow(s)
         ELSE CutCosts(s)

\* line 520 without its guard: the division of a numpy float by zero
QuarterlyROIUnguarded(profit, initial_investment) ==
    IF initial_investment = 0
    THEN [err |-> "NonFinite", roi |-> 0]
    ELSE [err |-> "none", roi |-> Scaled(profit * 4, 1000, initial_investment)]

\* line 520, in units of 0.1%
QuarterlyROI(profit, initial_investment) ==
    IF initial_investment > 0
    THEN [err |-> "none", roi |-> Scaled(profit * 4, 1000, initial_investment)]
    ELSE [err |-> "none", roi |-> 0]

\* lines 519-520
ReturnOnInvestment(s) ==
    IF s.err # "none" THEN s
    ELSE [s EXCEPT !.roi = QuarterlyROI(s.profit, s.ad["initial_investment"]).roi,
                   !.err = QuarterlyROI(s.profit, s.ad["initial_investment"]).err]

\* Lines 339-520, in the order of the source.
PeriodStep(ad, ts, t, periods, d) ==
    ReturnOnInvestment(EmergencyFinancing(CashUpdate(DebtPayment(FundingRound(
    FundingCheck(Profit(OtherCosts(FixedCosts(RevenueUpdate(AntiTrust(
    MarketShareGrowth(GrowthRate(CustomerModel(MarketSaturation(SupplyChainRecovery(
    SupplyChainDisruption(RegulatoryChange(CompetitorDecay(CompetitorEntry(
    EconomicCycle(Frame(ad, ts, t, periods, d))))))))))))))))))))))

(***************************************************************************)
(* run_monte_carlo_simulation: the aggregation (lines 536-597)             *)
(***************************************************************************)
RECURSIVE SumTo(_, _)
\* f[0] + ... + f[n-1]
SumTo(f, n) == IF n = 0 THEN 0 ELSE f[n - 1] + SumTo(f, n - 1)

Column(a, t, n) == [k \in 0..(n - 1) |-> a[<<k, t>>]]
\* np.mean(a, axis=0)[t]
Mean(a, t, n) == Scaled(SumTo(Column(a, t, n), n), 1, n)
\* The largest element of f[0..n-1]
RECURSIVE MaxTo(_, _)
MaxTo(f, n) == IF n = 1 THEN f[0] ELSE Max(f[n - 1], MaxTo(f, n - 1))
\* the root of the mean square, the deviations taken from 0
StdUncentred(a, t, n) ==
    LET dev == [k \in 0..(n - 1) |-> Abs(a[<<k, t>>])]
        unit == 1 + MaxTo(dev, n) \div 20000
        sq == [k \in 0..(n - 1) |-> (dev[k] \div unit) * (dev[k] \div unit)]
    IN unit * ISqrt(Scaled(SumTo(sq, n), 1, n))
\* np.std(a, axis=0)[t]: the deviations are squared in a unit coarse enough
\* for the sum of the squares to stay within 32 bits
Std(a, t, n) ==
    LET m == Mean(a, t, n)
        dev == [k \in 0..(n - 1) |-> Abs(a[<<k, t>>] - m)]
        unit == 1 + MaxTo(dev, n) \div 20000
        sq == [k \in 0..(n - 1) |-> (dev[k] \div unit) * (dev[k] \div unit)]
    IN unit * ISqrt(Scaled(SumTo(sq, n), 1, n))
\* a[:, -1], the last period of every trial
LastColumn(a, p, n) == Column(a, p - 1, n)
\* np.sum(flags), for an array of n booleans
CountTrue(flags, n) == Cardinality({k \in 0..(n - 1) : flags[k]})
\* count / iterations * 100, a percentage
Share(count, n) == Scaled(count * One, 1, n)

\* The conditions of roi_thresholds (lines 568-573); ROI is in units of 0.1%.
RoiNegative(roi) == roi < 0
\* the second bucket with its lower end open
Roi0To10Open(roi) == roi > 0 /\ roi < 100
Roi0To10(roi) == roi >= 0 /\ roi < 100
Roi10To20(roi) == roi >= 100 /\ roi < 200
Roi20Plus(roi) == roi >= 200
Profitable(profit) == profit > 0

\* cond(a[:, -1]) for the four ROI conditions and for profit > 0
LastRoiNegative(proj, p, n) == [k \in 0..(n - 1) |-> RoiNegative(LastColumn(proj.roi, p, n)[k])]
LastRoi0To10(proj, p, n) == [k \in 0..(n - 1) |-> Roi0To10(LastColumn(proj.roi, p, n)[k])]
LastRoi10To20(proj, p, n) == [k \in 0..(n - 1) |-> Roi10To20(LastColumn(proj.roi, p, n)[k])]
LastRoi20Plus(proj, p, n) == [k \in 0..(n - 1) |-> Roi20Plus(LastColumn(proj.roi, p, n)[k])]
LastProfitable(proj, p, n) ==
    [k \in 0..(n - 1) |-> Profitable(LastColumn(proj.profit, p, n)[k])]

\* a[:, -1] in the order of the trials
UnsortedLast(a, p, n) == [k \in 1..n |-> a[<<k - 1, p - 1>>]]
\* a[:, -1] in increasing order, as np.percentile orders its data
SortedLast(a, p, n) == SortSeq([k \in 1..n |-> a[<<k - 1, p - 1>>]], LAMBDA x, y : x < y)
\* np.percentile(a[:, -1], q): linear interpolation between the two order
\* statistics around position q / 100 * (n - 1)
Percentile(a, q, p, n) ==
    LET sorted == SortedLast(a, p, n)
        position == q * (n - 1)
        below == position \div 100 + 1
        above == Min(below + 1, n)
    IN sorted[below] + Scaled(sorted[above] - sorted[below], position % 100, 100)
\* lines 537-547
Thresholds(a, p, n) ==
    [low_10th |-> Percentile(a, 10, p, n),
     median |-> Percentile(a, 50, p, n),
     high_90th |-> Percentile(a, 90, p, n)]

AggregateResult(proj, bankruptcies, high_growths, p, n) ==
    [avg_revenue |-> [t \in 1..p |-> Mean(proj.revenue, t - 1, n)],
     avg_profit |-> [t \in 1..p |-> Mean(proj.profit, t - 1, n)],
     avg_cash_flow |-> [t \in 1..p |-> Mean(proj.cash_flow, t - 1, n)],
     avg_roi |-> [t \in 1..p |-> Mean(proj.roi, t - 1, n)],
     avg_market_share |-> [t \in 1..p |-> Mean(proj.market_share, t - 1, n)],
     std_revenue |-> [t \in 1..p |-> Std(proj.revenue, t - 1, n)],
     std_profit |-> [t \in 1..p |-> Std(proj.profit, t - 1, n)],
     std_cash_flow |-> [t \in 1..p |-> Std(proj.cash_flow, t - 1, n)],
     std_roi |-> [t \in 1..p |-> Std(proj.roi, t - 1, n)],
     std_market_share |-> [t \in 1..p |-> Std(proj.market_share, t - 1, n)],
     revenue_thresholds |-> Thresholds(proj.revenue, p, n),
     profit_thresholds |-> Thresholds(proj.profit, p, n),
     bankruptcy_probability |-> Share(bankruptcies, n),
     high_growth_probability |-> Share(high_growths, n),
     profitability_probability |-> Share(CountTrue(LastProfitable(proj, p, n), n), n),
     roi_thresholds |->
        [negative |-> Share(CountTrue(LastRoiNegative(proj, p, n), n), n),
         from_0_to_10 |-> Share(CountTrue(LastRoi0To10(proj, p, n), n), n),
         from_10_to_20 |-> Share(CountTrue(LastRoi10To20(proj, p, n), n), n),
         from_20_plus |-> Share(CountTrue(LastRoi20Plus(proj, p, n), n), n)]]

\* line 530 with cash < 0 for cash <= 0
IsBankruptStrict(cash, debt, initial_investment) ==
    cash < 0 /\ 2 * debt > 3 * initial_investment

\* lines 530 and 533
IsBankrupt(cash, debt, initial_investment) == cash <= 0 /\ 2 * debt > 3 * initial_investment
IsHighGrowth(revenue, initial_revenue) == revenue > initial_revenue * 3

(***************************************************************************)
(* The parameter sets a caller passes to run_monte_carlo_simulation, other *)
(* than the ones generate_company_data returns.                            *)
(***************************************************************************)
BaseParameters ==
    [initial_investment |-> 1000, initial_revenue |-> 1000, current_cash_reserves |-> 150,
     debt_level |-> 200, market_share |-> 200, seasonality_factor |-> 1000,
     funding_rounds |-> 15, funding_probability |-> 5000, credit_score |-> 700,
     industry_cyclicality |-> 2, market_growth_rate_mean |-> 466, market_volatility |-> 800,
     competitor_entry_probability |-> 1500, competitor_impact |-> 1000,
     regulatory_change_probability |-> 1000, regulatory_impact |-> 1000,
     supply_chain_disruption_probability |-> 1000, supply_chain_impact |-> 2000,
     customer_retention_rate |-> 8500, revenue_growth_rate_mean |-> 829,
     market_share_growth |-> 750, cost_inflation_rate |-> 62, fixed_costs |-> 500,
     variable_costs_percentage |-> 3000, r_and_d_percentage |-> 1500,
     marketing_percentage |-> 1500]

ParameterSets ==
    { BaseParameters,
      SetItem(BaseParameters, "credit_score", 650),
      SetItem(SetItem(BaseParameters, "initial_investment", 0), "credit_score", 650),
      SetItem(BaseParameters, "market_share", 0),
      SetItem(BaseParameters, "initial_revenue", 0),
      SetItem(BaseParameters, "regulatory_impact", One),
      SetItem(SetItem(BaseParameters, "customer_retention_rate", 25000), "current_cash_reserves", 5000),
      SetItem(BaseParameters, "market_share", 9000) }

\* The categorical inputs, recognized and not.
Industries == {"SaaS", "Manufacturing", "Retail", "Biotech", "Unknown"}
Sizes == {"startup", "growth", "established", "unknown"}
MarketConditions == {"boom", "normal", "recession", "unknown"}
Scenarios == {"optimistic", "neutral", "pessimistic", "unknown"}
UniformDraws == {0, 5000}
\* The second call's revenue_growth_rate_mean is the first call's plus this.
GrowthIncrements == {0, 300}

(***************************************************************************)
(* The state                                                               *)
(***************************************************************************)
VARIABLES
    pc,             \* where the program is
    error,          \* the exception that ended the call, or "none"
    heap,           \* the dicts, by reference
    adjusted_ref,   \* the reference held by the local adjusted_data
    call,           \* 0 before the first call of the simulation, then 1, 2
    args,           \* scenario, periods, iterations of the call
    i, t,           \* the loop variables
    initial_market_size,
    trial,          \* the local variables of the trial
    projections,    \* the five iterations x periods arrays
    bankruptcy_count, high_growth_count,
    results,        \* the dict the call returned
    draws_left,     \* draws off the default that the call may still make
    tape,           \* the draws of the first call, replayed by the second
    hist            \* history: what the claims compare against

vars == <<pc, error, heap, adjusted_ref, call, args, i, t, initial_market_size, trial,
          projections, bankruptcy_count, high_growth_count, results, draws_left, tape, hist>>

\* The caller's dict, company_data.
CompanyRef == 1
\* adjusted_data = company_data: the same dict under a second name
CopyRefAlias(ref) == ref
\* company_data.copy(): a new dict with the same items
CopyRef(ref) == ref + 1

company_data == heap[CompanyRef]
adjusted_data == heap[adjusted_ref]

Store(h, ref, d) == [r \in DOMAIN h \cup {ref} |-> IF r = ref THEN d ELSE h[r]]

\* every trial writing row 0
StoreIndexRow0(trial_i, period_t) == <<0, period_t>>

\* The cell of the arrays that trial i writes in period t.
StoreIndex(trial_i, period_t) == <<trial_i, period_t>>

NoTrial == [revenue |-> 0]
NoResults == [avg_revenue |-> <<>>]
Zeros(n, p) == [c \in (0..(n - 1)) \X (0..(p - 1)) |-> 0]

Init ==
    /\ pc = "init"
    /\ error = "none"
    /\ heap = [r \in {CompanyRef} |-> EmptyDict]
    /\ adjusted_ref = 0
    /\ call = 0
    /\ args = [scenario |-> "neutral", periods |-> 0, iterations |-> 0]
    /\ i = 0 /\ t = 0
    /\ initial_market_size = 0
    /\ trial = NoTrial
    /\ projections = [revenue |-> Zeros(0, 0), profit |-> Zeros(0, 0),
                      cash_flow |-> Zeros(0, 0), roi |-> Zeros(0, 0),
                      market_share |-> Zeros(0, 0)]
    /\ bankruptcy_count = 0 /\ high_growth_count = 0
    /\ results = NoResults
    /\ draws_left = 0
    /\ tape = [trials |-> <<>>, periods |-> <<>>]
    /\ hist = [generated |-> FALSE, before |-> EmptyDict, adjusted |-> EmptyDict,
               writes |-> Zeros(0, 0), finals |-> <<>>, ev |-> [none |-> TRUE],
               first |-> NoResults, increment |-> 0, unrecognized |-> FALSE,
               trial_events |-> <<>>, reductions |-> 0, restorations |-> 0,
               size |-> "none", without_event |-> 0,
               gen |-> [industry_type |-> "none", size |-> "none",
                        market_condition |-> "none", f |-> 0]]

(***************************************************************************)
(* The caller: company_data comes from generate_company_data or is the     *)
(* caller's own dict (app.py, lines 395-465).                              *)
(***************************************************************************)
Unrecognized(industry_type, size, market_condition) ==
    \/ industry_type \notin DOMAIN industry_params
    \/ size \notin DOMAIN size_ranges
    \/ market_condition \notin DOMAIN market_adjustments

Generate ==
    /\ pc = "init"
    /\ \E industry_type \in Industries, size \in Sizes,
          market_condition \in MarketConditions, f \in UniformDraws :
          LET r == generate_company_data(industry_type, size, market_condition, f)
          IN IF r.err # "none"
             THEN /\ pc' = "failed"
                  /\ error' = r.err
                  /\ hist' = [hist EXCEPT !.unrecognized =
                                  Unrecognized(industry_type, size, market_condition)]
                  /\ UNCHANGED <<heap, draws_left>>
             ELSE /\ pc' = "ready"
                  /\ error' = "none"
                  /\ heap' = Store(heap, CompanyRef, r.value)
                  /\ draws_left' = 0
                  /\ hist' = [hist EXCEPT !.generated = TRUE, !.size = size,
                                  !.gen = [industry_type |-> industry_type, size |-> size,
                                           market_condition |-> market_condition, f |-> f],
                                  !.unrecognized =
                                      Unrecognized(industry_type, size, market_condition)]
    /\ UNCHANGED <<adjusted_ref, call, args, i, t, initial_market_size, trial, projections,
                   bankruptcy_count, high_growth_count, results, tape>>

SupplyParameters ==
    /\ pc = "init"
    /\ \E d \in ParameterSets : heap' = Store(heap, CompanyRef, d)
    /\ pc' = "ready"
    /\ draws_left' = MaxDraws
    /\ UNCHANGED <<error, adjusted_ref, call, args, i, t, initial_market_size, trial,
                   projections, bankruptcy_count, high_growth_count, results, tape, hist>>

(***************************************************************************)
(* run_monte_carlo_simulation(company_data, periods, iterations, scenario) *)
(***************************************************************************)
\* the counters left as the previous call left them
KeepCounters == UNCHANGED <<bankruptcy_count, high_growth_count>>

\* lines 295-296
ResetCounters == bankruptcy_count' = 0 /\ high_growth_count' = 0

\* Lines 247-299, for the caller's dict as it is in h.
Setup(h, scenario, periods, iterations, inc) ==
    IF scenario \notin DOMAIN scenario_adjustments
    THEN /\ pc' = "failed"
         /\ error' = "KeyError"
         /\ heap' = h
         /\ hist' = [hist EXCEPT !.before = h[CompanyRef], !.unrecognized = TRUE]
         /\ UNCHANGED <<adjusted_ref, initial_market_size, projections,
                        bankruptcy_count, high_growth_count>>
    ELSE LET ref == CopyRef(CompanyRef)
             ad == ApplyScenario(h[CompanyRef], scenario)
             raised == IF ~(SetupKeys \subseteq DOMAIN ad) THEN "KeyError"
                       ELSE IF ad["market_share"] = 0 THEN "ZeroDivisionError"
                       ELSE "none"
         IN /\ heap' = Store(h, ref, ad)
            /\ adjusted_ref' = ref
            /\ projections' = [revenue |-> Zeros(iterations, periods),
                               profit |-> Zeros(iterations, periods),
                               cash_flow |-> Zeros(iterations, periods),
                               roi |-> Zeros(iterations, periods),
                               market_share |-> Zeros(iterations, periods)]
            /\ ResetCounters
            /\ hist' = [hist EXCEPT !.before = h[CompanyRef], !.adjusted = ad,
                                    !.writes = Zeros(iterations, periods),
                                    !.finals = <<>>, !.ev = [none |-> TRUE],
                                    !.first = results, !.increment = inc,
                                    !.trial_events = <<>>, !.without_event = 0,
                                    !.reductions = 0, !.restorations = 0]
            /\ IF raised # "none"
               THEN /\ pc' = "failed"
                    /\ error' = raised
                    /\ UNCHANGED initial_market_size
               ELSE /\ pc' = "trial"
                    /\ error' = "none"
                    /\ initial_market_size' =
                           Scaled(ad["initial_revenue"], 100, ad["market_share"])

FirstCall ==
    /\ pc = "ready"
    /\ \E scenario \in Scenarios, periods \in 1..MaxPeriods, iterations \in 1..MaxIterations :
          /\ args' = [scenario |-> scenario, periods |-> periods, iterations |-> iterations]
          /\ Setup(heap, scenario, periods, iterations, 0)
    /\ call' = 1
    /\ i' = 0 /\ t' = 0
    /\ UNCHANGED <<trial, results, draws_left, tape>>

\* The caller calls again, with the same arguments and the same random
\* draws, its dict unchanged or with a larger revenue_growth_rate_mean.
SecondCall ==
    /\ pc = "returned" /\ call = 1
    /\ \E inc \in GrowthIncrements :
          LET d == company_data
              h == Store(heap, CompanyRef,
                         [d EXCEPT !["revenue_growth_rate_mean"] = @ + inc])
          IN Setup(h, args.scenario, args.periods, args.iterations, inc)
    /\ call' = 2
    /\ i' = 0 /\ t' = 0
    /\ UNCHANGED <<args, trial, results, draws_left, tape>>

\* What has happened in a trial so far: the Bernoulli draws for a competitor's
\* entry and for a regulatory change that succeeded, the times their effects
\* were applied, and the periods that ended in the cost cuts of lines 513-516.
NoEvents == [competitor_draws |-> 0, competitor_effects |-> 0,
             regulatory_draws |-> 0, regulatory_effects |-> 0, cuts |-> 0]
Plus(n, b) == IF b THEN n + 1 ELSE n
CountEvents(e, ad, d, r) ==
    [competitor_draws |->
         Plus(e.competitor_draws,
              Bernoulli(d.u_competitor, ad["competitor_entry_probability"], r.periods)),
     competitor_effects |-> Plus(e.competitor_effects, r.competitor_now),
     regulatory_draws |->
         Plus(e.regulatory_draws,
              Bernoulli(d.u_regulatory, ad["regulatory_change_probability"], r.periods)),
     regulatory_effects |-> Plus(e.regulatory_effects, r.regulatory_now),
     cuts |-> Plus(e.cuts, r.cut_now)]

\* Lines 302-337: the start of trial i.
BeginTrial ==
    /\ pc = "trial"
    /\ \E econ_cycle_start \in EconStarts :
          /\ IF call = 1
             THEN /\ (econ_cycle_start # 0) => draws_left > 0
                  /\ draws_left' = IF econ_cycle_start # 0 THEN draws_left - 1 ELSE draws_left
                  /\ tape' = [tape EXCEPT !.trials = Append(@, econ_cycle_start)]
             ELSE /\ econ_cycle_start = tape.trials[i + 1]
                  /\ UNCHANGED <<draws_left, tape>>
          /\ IF ~(TrialKeys \subseteq DOMAIN adjusted_data)
             THEN /\ pc' = "failed"
                  /\ error' = "KeyError"
                  /\ UNCHANGED trial
             ELSE /\ pc' = "period"
                  /\ error' = "none"
                  /\ trial' = [revenue |-> adjusted_data["initial_revenue"],
                               cash |-> adjusted_data["current_cash_reserves"],
                               debt |-> adjusted_data["debt_level"],
                               market_share |-> adjusted_data["market_share"],
                               market_size |-> initial_market_size,
                               max_market_share |->
                                   Min(8000, adjusted_data["market_share"] * 5),
                               competitor_entered |-> FALSE,
                               competitor_entry_periods |-> <<>>,
                               regulatory_change |-> FALSE,
                               regulatory_change_periods |-> <<>>,
                               supply_chain_disruptions |-> <<>>,
                               funding_rounds_remaining |->
                                   Get(adjusted_data, "funding_rounds", 0),
                               last_funding_period |-> -4,
                               econ_cycle_start |-> econ_cycle_start,
                               customer_count |-> adjusted_data["initial_revenue"]]
    /\ t' = 0
    /\ hist' = [hist EXCEPT !.trial_events = Append(@, NoEvents)]
    /\ UNCHANGED <<heap, adjusted_ref, call, args, i, initial_market_size, projections,
                   bankruptcy_count, high_growth_count, results>>

\* The number of draws of d that are off the default.
Cost(d) == Cardinality({k \in DOMAIN d : d[k] # DefaultDraw[k]})

\* The revenue line 437 would record for the period if, with the same draws,
\* neither the regulatory change (lines 375-382) nor the supply-chain
\* disruption (lines 385-390) triggered in it.
RevenueWithoutEvent(ad, ts, period_t, periods, d, r) ==
    IF r.regulatory_now \/ r.supply_now
    THEN PeriodStep(ad, ts, period_t, periods,
                    [d EXCEPT !.u_regulatory = 9999, !.u_supply = 9999]).revenue
    ELSE r.revenue

\* Lines 339-527: period t of trial i.
Period ==
    /\ pc = "period"
    /\ \E d \in PeriodDraws :
          /\ IF call = 1 THEN Cost(d) <= draws_left
                         ELSE d = tape.periods[i * args.periods + t + 1]
          /\ \E r \in {PeriodStep(adjusted_data, trial, t, args.periods, d)} :
             LET failed == r.err # "none"
                 \* a draw the code does not make has no value to choose
                 made == /\ ~r.antitrust_drawn => d.u_antitrust = 9999
                         /\ ~r.funding_drawn => d.u_funding = 9999
                         /\ ~r.funding_now => d.funding_percent = 20
                 cell == StoreIndex(i, t)
             IN /\ IF call = 1
                   THEN /\ made
                        /\ draws_left' = draws_left - Cost(d)
                        /\ tape' = [tape EXCEPT !.periods = Append(@, d)]
                   ELSE UNCHANGED <<draws_left, tape>>
                /\ IF failed
                   THEN /\ pc' = "failed"
                        /\ error' = r.err
                        /\ UNCHANGED <<heap, trial, projections, hist, t>>
                   ELSE /\ error' = "none"
                        /\ heap' = Store(heap, adjusted_ref, r.ad)
                        /\ trial' = [k \in TrialVariables |-> r[k]]
                        /\ projections' =
                             [revenue |-> [projections.revenue EXCEPT ![cell] = r.revenue],
                              profit |-> [projections.profit EXCEPT ![cell] = r.profit],
                              cash_flow |-> [projections.cash_flow EXCEPT ![cell] = r.cash_flow],
                              roi |-> [projections.roi EXCEPT ![cell] = r.roi],
                              market_share |->
                                  [projections.market_share EXCEPT ![cell] = r.market_share]]
                        /\ hist' = [hist EXCEPT
                               !.writes[cell] = @ + 1, !.ev = r,
                               !.trial_events[i + 1] = CountEvents(@, adjusted_data, d, r),
                               !.without_event =
                                   RevenueWithoutEvent(adjusted_data, trial, t,
                                                       args.periods, d, r),
                               !.reductions = IF r.supply_now THEN @ + 1 ELSE @,
                               !.restorations = @ + r.restored]
                        /\ t' = t + 1
                        /\ pc' = IF t + 1 = args.periods THEN "trial_end" ELSE "period"
    /\ UNCHANGED <<adjusted_ref, call, args, i, initial_market_size,
                   bankruptcy_count, high_growth_count, results>>

\* Lines 529-534: the counters, after the last period of trial i.
EndTrial ==
    /\ pc = "trial_end"
    /\ bankruptcy_count' =
          IF IsBankrupt(trial.cash, trial.debt, adjusted_data["initial_investment"])
          THEN bankruptcy_count + 1 ELSE bankruptcy_count
    /\ high_growth_count' =
          IF IsHighGrowth(trial.revenue, adjusted_data["initial_revenue"])
          THEN high_growth_count + 1 ELSE high_growth_count
    /\ hist' = [hist EXCEPT !.finals = Append(@, [cash |-> trial.cash, debt |-> trial.debt,
                                                   revenue |-> trial.revenue])]
    /\ i' = i + 1
    /\ pc' = IF i + 1 = args.iterations THEN "aggregate" ELSE "trial"
    /\ UNCHANGED <<error, heap, adjusted_ref, call, args, t, initial_market_size, trial,
                   projections, results, draws_left, tape>>

\* Lines 536-597: the statistics, and the return.
Aggregate ==
    /\ pc = "aggregate"
    /\ results' = AggregateResult(projections, bankruptcy_count, high_growth_count,
                                  args.periods, args.iterations)
    /\ pc' = "returned"
    /\ UNCHANGED <<error, heap, adjusted_ref, call, args, i, t, initial_market_size, trial,
                   projections, bankruptcy_count, high_growth_count, draws_left, tape, hist>>

Next ==
    \/ Generate
    \/ SupplyParameters
    \/ FirstCall
    \/ SecondCall
    \/ BeginTrial
    \/ Period
    \/ EndTrial
    \/ Aggregate

Spec == Init /\ [][Next]_vars

(***************************************************************************)
(* The events of a trial: one parameter set, the neutral scenario, a       *)
(* longer horizon and more random draws off the default.                   *)
(***************************************************************************)
SupplyEventParameters ==
    /\ pc = "init"
    /\ heap' = Store(heap, CompanyRef, BaseParameters)
    /\ pc' = "ready"
    /\ draws_left' = EventDraws
    /\ UNCHANGED <<error, adjusted_ref, call, args, i, t, initial_market_size, trial,
                   projections, bankruptcy_count, high_growth_count, results, tape, hist>>

LongCall ==
    /\ pc = "ready"
    /\ \E periods \in 1..EventPeriods, iterations \in 1..MaxIterations :
          /\ args' = [scenario |-> "neutral", periods |-> periods, iterations |-> iterations]
          /\ Setup(heap, "neutral", periods, iterations, 0)
    /\ call' = 1
    /\ i' = 0 /\ t' = 0
    /\ UNCHANGED <<trial, results, draws_left, tape>>

EventNext ==
    \/ SupplyEventParameters
    \/ LongCall
    \/ BeginTrial
    \/ Period
    \/ EndTrial
    \/ Aggregate

EventSpec == Init /\ [][EventNext]_vars

(***************************************************************************)
(* The properties                                                          *)
(***************************************************************************)
\* The call is past line 299 and has not raised.
Running == pc \in {"trial", "period", "trial_end", "aggregate", "returned"}

\* The fields of adjusted_data that the body of the period loop assigns.
MutatedFields == {"marketing_percentage", "r_and_d_percentage", "fixed_costs",
                  "customer_retention_rate"}

Metrics == {"revenue", "profit", "cash_flow", "roi", "market_share"}
Curves == {"avg_revenue", "avg_profit", "avg_cash_flow", "avg_roi", "avg_market_share",
           "std_revenue", "std_profit", "std_cash_flow", "std_roi", "std_market_share"}

\* C1: at the start of every trial, marketing_percentage, r_and_d_percentage,
\* fixed_costs and customer_retention_rate of the working dict have the values
\* they had right after the scenario adjustment.
C1_TrialsStartFromAdjusted ==
    pc = "trial" =>
        \A k \in MutatedFields \cap DOMAIN hist.adjusted : adjusted_data[k] = hist.adjusted[k]

\* C2: from the call of run_monte_carlo_simulation to its return, the caller's
\* dict has every item it had when the call was made, and no other.
C2_InputUnmodified == call >= 1 => company_data = hist.before

C2_Witness == pc = "returned" /\ adjusted_data # hist.adjusted

\* The cells written so far: the rows of the trials that are over, and the
\* periods of the current trial that are over.
Written(c) == c[1] < i \/ (c[1] = i /\ pc \in {"period", "trial_end"} /\ c[2] < t)

\* C3: the arrays are iterations x periods, trial i in period t has written
\* cell [i, t] once and no other cell, and the mean and std curves returned
\* have exactly `periods` entries.
C3_OwnCellOnce ==
    /\ Running =>
          /\ DOMAIN hist.writes = (0..(args.iterations - 1)) \X (0..(args.periods - 1))
          /\ \A c \in DOMAIN hist.writes : hist.writes[c] = IF Written(c) THEN 1 ELSE 0
          /\ \A m \in Metrics :
                /\ DOMAIN projections[m] = DOMAIN hist.writes
                /\ \A c \in DOMAIN hist.writes : ~Written(c) => projections[m][c] = 0
    /\ pc = "returned" => \A k \in Curves : DOMAIN results[k] = 1..args.periods

C3_Witness ==
    /\ pc = "returned" /\ args.iterations = MaxIterations /\ args.periods = MaxPeriods
    /\ \A c \in DOMAIN projections.revenue : projections.revenue[c] # 0

C5_SameInputsSameResult ==
    (call = 2 /\ hist.increment = 0) =>
        /\ pc # "failed"
        /\ pc = "returned" => results = hist.first

C5_Witness ==
    /\ pc = "returned" /\ call = 2 /\ hist.increment = 0
    /\ adjusted_data # hist.adjusted
    /\ bankruptcy_count > 0

\* C6: a second call that differs from the first only by a larger
\* revenue_growth_rate_mean returns a strictly larger average revenue for the
\* last period.
C6_LargerGrowthLargerRevenue ==
    (pc = "returned" /\ call = 2 /\ hist.increment > 0) =>
        results.avg_revenue[args.periods] > hist.first.avg_revenue[args.periods]

\* C7: a call given an unrecognized industry, size, market condition or
\* scenario does not fail.
C7_UnrecognizedNeverFatal == hist.unrecognized => ~(pc = "failed" /\ error = "KeyError")

\* C8: no division of run_monte_carlo_simulation has a zero denominator.
C8_NoZeroDenominator == pc = "failed" => error \notin {"ZeroDivisionError", "NonFinite"}

\* C9: with initial_investment = 0 and a recognized scenario the call does
\* not raise, and every ROI recorded, and so every average ROI, is 0.
C9_ZeroInvestmentZeroROI ==
    ( /\ call >= 1 /\ args.scenario \in DOMAIN scenario_adjustments
      /\ HasKey(hist.before, "initial_investment")
      /\ hist.before["initial_investment"] = 0 ) =>
        /\ pc # "failed"
        /\ \A c \in DOMAIN projections.roi : projections.roi[c] = 0
        /\ pc = "returned" => \A p \in 1..args.periods : results.avg_roi[p] = 0

C9_Witness ==
    /\ pc = "returned" /\ hist.before["initial_investment"] = 0
    /\ \A c \in DOMAIN projections.profit : projections.profit[c] # 0

\* The states in which the trials of finals were left by their last period,
\* that satisfy the condition of bankruptcy, and of high growth.
FinalBankrupt(finals, initial_investment) ==
    {k \in 1..Len(finals) : finals[k].cash <= 0 /\ 2 * finals[k].debt > 3 * initial_investment}
FinalHighGrowth(finals, initial_revenue) ==
    {k \in 1..Len(finals) : finals[k].revenue > 3 * initial_revenue}

\* C10: the counters count the trials whose state after the last period has
\* cash <= 0 and debt > 1.5 x initial_investment, and revenue > 3 x initial
\* revenue; nothing else adds to them.
C10_FlagsFromFinalState ==
    Running =>
        /\ Len(hist.finals) = i
        /\ bankruptcy_count =
              Cardinality(FinalBankrupt(hist.finals, hist.adjusted["initial_investment"]))
        /\ high_growth_count =
              Cardinality(FinalHighGrowth(hist.finals, hist.adjusted["initial_revenue"]))

C10_Witness ==
    /\ pc = "returned" /\ args.iterations = MaxIterations
    /\ bankruptcy_count = 1

\* C11: in every trial the effect of a competitor's entry is applied once if
\* one or more of the trial's draws for it succeeded and not at all otherwise,
\* and so is the effect of a regulatory change; the count starts anew in every
\* trial.
C11_EffectsOncePerTrial ==
    \A k \in 1..Len(hist.trial_events) :
        LET e == hist.trial_events[k]
        IN /\ e.competitor_effects = IF e.competitor_draws > 0 THEN 1 ELSE 0
           /\ e.regulatory_effects = IF e.regulatory_draws > 0 THEN 1 ELSE 0

C11_Witness ==
    /\ Len(hist.trial_events) = 2
    /\ hist.trial_events[1].competitor_draws >= 2
    /\ hist.trial_events[1].competitor_effects = 1
    /\ hist.trial_events[2].competitor_effects = 1

\* C12: when a new trial starts, every reduction of the retention rate by a
\* supply-chain disruption of the earlier trials has been undone by one
\* restoration.
C12_ReductionsRestored ==
    (pc = "trial" /\ i >= 1) => hist.reductions = hist.restorations

\* C13: a period in which a funding round is received starts with
\* funding_rounds_remaining > 0 and at least 4 periods after last_funding_period,
\* which it sets to t, and in it the cash runway is below 3 periods or the
\* growth rate is above 10% with the market share below half its ceiling.
C13_FundingOnlyWhenAllowed ==
    [][ (pc = "period" /\ pc' \in {"period", "trial_end"} /\ hist'.ev.funding_now) =>
            /\ trial.funding_rounds_remaining > 0
            /\ t - trial.last_funding_period >= 4
            /\ \/ hist'.ev.profit < 0 /\ trial.cash < 3 * (-hist'.ev.profit)
               \/ hist'.ev.growth_rate > 1000 /\ hist'.ev.market_share_factor < 5000
            /\ trial'.last_funding_period = t ]_vars

\* the second funding round of a trial
C13_Witness ==
    /\ pc \in {"period", "trial_end"}
    /\ "funding_now" \in DOMAIN hist.ev
    /\ hist.ev.funding_now
    /\ hist.ev.t >= 4
    /\ trial.funding_rounds_remaining = adjusted_data["funding_rounds"] - 20

\* C14: in a dict generate_company_data returns, market_share_growth is the
\* quarterly equivalent of the annual revenue growth divided by the divisor of
\* the size, with the conversion to quarterly applied before or after the
\* division (up to 0.05 percentage points of rounding).
C14_ShareGrowthQuarterly ==
    (hist.generated /\ pc = "ready") =>
        LET quarterly == company_data["revenue_growth_rate_mean"]
            annual == Power(quarterly, 4) - One
            divisor == MarketShareGrowthDivisor(hist.size)
            share_growth == company_data["market_share_growth"]
        IN \/ Abs(share_growth - Scaled(quarterly, 1, divisor)) <= 5
           \/ Abs(share_growth - QuarterlyRate(Scaled(annual, 1, divisor))) <= 5

\* C15: a dict generate_company_data returns has every key that
\* run_monte_carlo_simulation reads with adjusted_data[key], and a call with
\* it and a recognized scenario does not raise KeyError.
C15_GeneratedComplete ==
    hist.generated =>
        /\ (SetupKeys \cup TrialKeys \cup PeriodKeys \cup EventKeys) \subseteq DOMAIN company_data
        /\ args.scenario \in DOMAIN scenario_adjustments => ~(pc = "failed" /\ error = "KeyError")

C15_Witness == hist.generated /\ hist.unrecognized /\ pc = "returned" /\ call = 1

\* C16: with scenario = "neutral" the adjusted dict is equal, item by item,
\* to the caller's, and adjusting it again leaves it as it is.
C16_NeutralIsIdentity ==
    (call >= 1 /\ args.scenario = "neutral") =>
        /\ hist.adjusted = hist.before
        /\ ApplyScenario(hist.adjusted, "neutral") = hist.adjusted

C16_Witness ==
    /\ pc = "trial" /\ args.scenario = "neutral"
    /\ \A k \in DOMAIN scenario_adjustments["neutral"] :
          HasKey(hist.before, k) /\ hist.before[k] # 0

AfterPeriod == pc = "trial_end" \/ (pc = "period" /\ t > 0)

C20_FundingNonNegative ==
    (AfterPeriod /\ hist.ev.funding_now) => hist.ev.funding >= 0

\* C21: in a period whose cash update (lines 495-498) leaves cash < 0, debt is
\* taken iff the debt after the payment is below 2 x revenue and credit_score
\* exceeds 650; then debt grows by new_debt, cash by 90% of new_debt, and
\* revenue > 0; otherwise debt stays and cash is set to 0.  With cash >= 0
\* after the update neither happens.
C21_EmergencyDebtIffCreditworthy ==
    [][ (pc = "period" /\ pc' \in {"period", "trial_end"}) =>
            LET f == hist'.ev
                cash == trial.cash + f.cash_flow
                debt == Max(0, trial.debt - f.debt_payment + f.debt_interest)
            IN IF cash < 0
               THEN IF debt < 2 * f.revenue /\ Get(adjusted_data, "credit_score", 700) > 650
                    THEN /\ f.borrow_now /\ ~f.cut_now
                         /\ f.revenue > 0
                         /\ trial'.debt = debt + f.new_debt
                         /\ trial'.cash = cash + Scaled(f.new_debt, 9, 10)
                    ELSE /\ f.cut_now /\ ~f.borrow_now
                         /\ trial'.debt = debt
                         /\ trial'.cash = 0
               ELSE /\ ~f.borrow_now /\ ~f.cut_now
                    /\ trial'.debt = debt
                    /\ trial'.cash = cash ]_vars

\* a shortfall with little debt that is not financed, the credit score being 650
C21_Witness ==
    /\ AfterPeriod
    /\ hist.ev.cut_now
    /\ hist.ev.debt < 2 * hist.ev.revenue
    /\ Get(adjusted_data, "credit_score", 700) = 650

\* The fixed costs that line 462 subtracted in the last period.
ChargedFixedCosts ==
    hist.ev.revenue - hist.ev.variable_costs - hist.ev.r_and_d - hist.ev.marketing
    - hist.ev.profit

\* The last period of the first trial came after exactly one period of that
\* trial that ended in cost cuts, and no competitor has entered (an entry
\* changes marketing_percentage as well).
AfterOneCut ==
    /\ AfterPeriod /\ i = 0
    /\ hist.trial_events[1].cuts = (IF hist.ev.cut_now THEN 2 ELSE 1)
    /\ ~hist.ev.competitor_entered

\* C22: in a period that follows the cost cuts, marketing is charged at 0.8 x
\* and R&D at 0.7 x their percentage of revenue, and the fixed costs charged
\* are 0.9 x those of lines 442-450.
C22_CutsLowerLaterCosts ==
    AfterOneCut =>
        /\ hist.ev.marketing =
               Scaled(hist.ev.revenue, Scaled(hist.adjusted["marketing_percentage"], 8, 10), One)
        /\ hist.ev.r_and_d =
               Scaled(hist.ev.revenue, Scaled(hist.adjusted["r_and_d_percentage"], 7, 10), One)
        /\ ChargedFixedCosts = Scaled(FixedCosts(hist.ev).fixed_costs, 9, 10)

\* the part of C22 that holds: marketing and R&D after the cuts
C22_PercentagesCut ==
    AfterOneCut =>
        /\ hist.ev.marketing =
               Scaled(hist.ev.revenue, Scaled(hist.adjusted["marketing_percentage"], 8, 10), One)
        /\ hist.ev.r_and_d =
               Scaled(hist.ev.revenue, Scaled(hist.adjusted["r_and_d_percentage"], 7, 10), One)

\* C23: in every period the interest is 1.5% of the debt the period starts
\* with, the payment is min(debt, max(5% of debt, 20% of profit)) with
\* profit > 0 and 2% of debt otherwise, the payment is at most that debt, the
\* debt stays >= 0, and without emergency borrowing the debt does not grow.
C23_DebtPaymentBounded ==
    [][ (pc = "period" /\ pc' \in {"period", "trial_end"}) =>
            LET f == hist'.ev
            IN /\ f.debt_interest = Scaled(trial.debt, 15, 1000)
               /\ f.debt_payment =
                      IF f.profit > 0
                      THEN Min(trial.debt, Max(Scaled(trial.debt, 5, 100),
                                               Scaled(f.profit, 2, 10)))
                      ELSE Scaled(trial.debt, 2, 100)
               /\ f.debt_payment <= trial.debt
               /\ trial'.debt >= 0
               /\ ~f.borrow_now => trial'.debt <= trial.debt ]_vars

\* a profitable period that pays off all of the debt: only the interest is left
C23_Witness ==
    /\ AfterPeriod
    /\ hist.ev.profit > 0
    /\ hist.ev.debt_payment > 0
    /\ hist.ev.debt_payment > 20 * hist.ev.debt_interest
    /\ trial.debt = hist.ev.debt_interest

\* C24: the revenue recorded for a period in which a regulatory change or a
\* supply-chain disruption triggers is lower than the revenue that would be
\* recorded for it with the same draws and without the event.  Amounts are
\* whole thousands here, so "lower" is read in the claim's favour: the revenue
\* with the event is not more than 5 thousand above the one without.
C24_EventLowersRevenue ==
    (AfterPeriod /\ (hist.ev.regulatory_now \/ hist.ev.supply_now)) =>
        hist.ev.revenue <= hist.without_event + 5

\* C25: within a trial the funding rounds received are at most funding_rounds
\* (both in tenths of a round), and funding_rounds_remaining is never negative.
C25_RoundsWithinLimit ==
    pc \in {"period", "trial_end"} =>
        LET funding_rounds == Get(adjusted_data, "funding_rounds", 0)
            received == funding_rounds - trial.funding_rounds_remaining
        IN /\ received <= funding_rounds
           /\ trial.funding_rounds_remaining >= 0

\* C26: the market share recorded for a period is at most
\* min(80, 5 x market_share of the adjusted dict), and the anti-trust reduction
\* to 0.9 x is applied only to a share above 50 (so it leaves more than 45).
C26_ShareBelowCeiling ==
    AfterPeriod =>
        /\ hist.ev.market_share <= Min(8000, 5 * hist.adjusted["market_share"])
        /\ projections.market_share[StoreIndex(i, hist.ev.t)] = hist.ev.market_share
        /\ hist.ev.antitrust_now => hist.ev.antitrust_drawn /\ hist.ev.market_share > 4500

\* a period in which the recovery multiplier is applied to a share at the
\* ceiling, and the share recorded is the ceiling
C26_Witness ==
    /\ AfterPeriod
    /\ hist.ev.competitor_entered /\ ~hist.ev.competitor_now
    /\ hist.ev.t - hist.ev.competitor_entry_periods[1] \in 1..4
    /\ hist.ev.market_share = hist.ev.max_market_share

\* a period in which the anti-trust reduction is applied
AntiTrustApplied == AfterPeriod /\ hist.ev.antitrust_now

\* C27: generate_company_data gives a startup a higher
\* competitor_entry_probability and supply_chain_disruption_probability than
\* an established company of the same industry, market condition and draws,
\* and gives boom and recession a competitor_entry_probability and a
\* cost_inflation_rate that differ from those of normal.
C27_MultipliersApplied ==
    (hist.generated /\ pc = "ready") =>
        LET g == hist.gen
            established ==
                generate_company_data(g.industry_type, "established",
                                      g.market_condition, g.f).value
            normal == generate_company_data(g.industry_type, g.size, "normal", g.f).value
        IN /\ g.size = "startup" =>
                 /\ company_data["competitor_entry_probability"] >
                        established["competitor_entry_probability"]
                 /\ company_data["supply_chain_disruption_probability"] >
                        established["supply_chain_disruption_probability"]
           /\ g.market_condition \in {"boom", "recession"} =>
                 /\ company_data["competitor_entry_probability"] #
                        normal["competitor_entry_probability"]
                 /\ company_data["cost_inflation_rate"] # normal["cost_inflation_rate"]

\* C28: no funding round is received in the first period (t = 0) of a trial.
C28_NoFundingInFirstPeriod ==
    (AfterPeriod /\ hist.ev.t = 0) => ~hist.ev.funding_now

\* C30: for a dict generate_company_data returned, the customer retention
\* rate is at most 100 percent after the scenario adjustment and while the
\* trials run.
C30_RetentionAtMost100 ==
    (hist.generated /\ pc \in {"trial", "period", "trial_end", "aggregate", "returned"}) =>
        /\ hist.adjusted["customer_retention_rate"] <= One
        /\ adjusted_data["customer_retention_rate"] <= One

\* C29: with a competitor that entered in period e, lines 366-372 multiply the
\* market share by 1 + (marketing_percentage / 10) * ((t - e) / 4) / 100 in the
\* periods t = e+1 .. e+4, marketing_percentage being the value the period
\* starts with; in period e the share only loses competitor_impact, and in
\* every other period the loop leaves it as it was.
C29_RecoveryInNextFourPeriods ==
    [][ (pc = "period" /\ pc' \in {"period", "trial_end"}) =>
            LET f == hist'.ev
                since == IF f.competitor_entered THEN t - f.competitor_entry_periods[1] ELSE -1
            IN f.recovered_share =
                  IF since \in 1..4
                  THEN Scaled(trial.market_share,
                              One + Scaled(adjusted_data["marketing_percentage"], since, 40),
                              One)
                  ELSE IF f.competitor_now
                  THEN Scaled(trial.market_share, One - adjusted_data["competitor_impact"], One)
                  ELSE trial.market_share ]_vars

\* the fifth period after a competitor's entry: the share is left as it was,
\* after four periods that each raised it
C29_Witness ==
    /\ AfterPeriod
    /\ hist.ev.competitor_entered
    /\ hist.ev.t - hist.ev.competitor_entry_periods[1] = 5
    /\ hist.ev.recovered_share > 0

=============================================================================
